---- MODULE Spec2Model ----
(***************************************************************************)
(* A model of hf3lint.py: the path accessor (getter/get), the Checkers,    *)
(* the rule dispatcher (_RuleDispatcher.validate) and the two rule sets    *)
(* HF3DataLint and BCDataLint.                                             *)
(*                                                                         *)
(* Representation of Python values.                                        *)
(*   A Python str is a sequence of tokens.  Digits, ".", ",", ";", "+",    *)
(*   "-", "e", "E", blank and newline are always tokens of their own, so   *)
(*   split(), count(), strip() and the regular expressions work on the     *)
(*   characters they look at; a run of other text (a key, a word, a        *)
(*   message constant) may be one token, and no operation of the program   *)
(*   ever cuts such a token.                                               *)
(*   A value of a document is Str(s), Map(m) (a dict from str to value)    *)
(*   or None.                                                              *)
(*   A Python exception is modelled by an outcome with ok = FALSE: it      *)
(*   propagates through every caller up to the caller of validate().       *)
(***************************************************************************)
EXTENDS Integers, Sequences, FiniteSets, TLC

VARIABLES lint, doc, files, rev, probe, heap, report, calls

vars == <<lint, doc, files, rev, probe, heap, report, calls>>

---------------------------------------------------------------------------
(* Python values *)

None == [t |-> "none"]
Str(s) == [t |-> "str", s |-> s]
Map(m) == [t |-> "map", m |-> m]

IsNone(v) == v.t = "none"
IsStr(v) == v.t = "str"
IsMap(v) == v.t = "map"

\* the empty dict
EmptyMap == Map([k \in {} |-> None])

\* an outcome of an expression that may raise
Ok(v) == [ok |-> TRUE, v |-> v]
Raised == [ok |-> FALSE, v |-> None]

---------------------------------------------------------------------------
(* Python str operations, on token sequences *)

Digit == {"0", "1", "2", "3", "4", "5", "6", "7", "8", "9"}
Whitespace == {" ", "\n"}

DigitVal(c) ==
  CASE c = "0" -> 0 [] c = "1" -> 1 [] c = "2" -> 2 [] c = "3" -> 3 [] c = "4" -> 4
    [] c = "5" -> 5 [] c = "6" -> 6 [] c = "7" -> 7 [] c = "8" -> 8 [] c = "9" -> 9

DigitChr(n) ==
  CASE n = 0 -> "0" [] n = 1 -> "1" [] n = 2 -> "2" [] n = 3 -> "3" [] n = 4 -> "4"
    [] n = 5 -> "5" [] n = 6 -> "6" [] n = 7 -> "7" [] n = 8 -> "8" [] n = 9 -> "9"

\* s.count(c) for a one-character c
Count(s, c) == Cardinality({i \in 1..Len(s) : s[i] = c})

RECURSIVE Split(_, _)
\* s.split(c) for a one-character separator c
Split(s, c) ==
  IF \A i \in 1..Len(s) : s[i] # c
    THEN <<s>>
    ELSE LET i == CHOOSE j \in 1..Len(s) : s[j] = c /\ \A k \in 1..(j - 1) : s[k] # c
         IN <<SubSeq(s, 1, i - 1)>> \o Split(SubSeq(s, i + 1, Len(s)), c)

RECURSIVE Join(_, _)
\* sep.join(parts)
Join(sep, parts) ==
  IF parts = <<>> THEN <<>>
  ELSE IF Len(parts) = 1 THEN parts[1]
  ELSE parts[1] \o sep \o Join(sep, Tail(parts))

RECURSIVE LStrip(_)
LStrip(s) == IF s # <<>> /\ s[1] \in Whitespace THEN LStrip(Tail(s)) ELSE s

RECURSIVE RStrip(_)
RStrip(s) ==
  IF s # <<>> /\ s[Len(s)] \in Whitespace THEN RStrip(SubSeq(s, 1, Len(s) - 1)) ELSE s

\* s.strip()
Strip(s) == RStrip(LStrip(s))

RECURSIVE DigitsOf(_)
DigitsOf(n) == IF n < 10 THEN <<DigitChr(n)>> ELSE DigitsOf(n \div 10) \o <<DigitChr(n % 10)>>

\* str(n) and "%s" % n for an int n
IntStr(n) == IF n < 0 THEN <<"-">> \o DigitsOf(-n) ELSE DigitsOf(n)

RECURSIVE NatOf(_)
\* the number a run of decimal digits denotes
NatOf(s) == IF s = <<>> THEN 0 ELSE 10 * NatOf(SubSeq(s, 1, Len(s) - 1)) + DigitVal(s[Len(s)])

RECURSIVE SetToSeq(_)
\* the elements of a set or of a dict's keys in the one order the interpreter
\* iterates them in (an order the program does not choose)
SetToSeq(S) ==
  IF S = {} THEN <<>>
  ELSE LET x == CHOOSE y \in S : TRUE IN <<x>> \o SetToSeq(S \ {x})

RECURSIVE Repr(_)
\* repr(v): what "%s" % v gives for a dict, and what a str looks like inside one
Repr(v) ==
  IF IsStr(v) THEN <<"'">> \o v.s \o <<"'">>
  ELSE IF IsNone(v) THEN <<"None">>
  ELSE LET ks == SetToSeq(DOMAIN v.m)
           item(k) == <<"'">> \o k \o <<"'", ":", " ">> \o Repr(v.m[k])
       IN <<"{">> \o Join(<<",", " ">>, [i \in 1..Len(ks) |-> item(ks[i])]) \o <<"}">>

\* "%s" % v
Fmt(v) == IF IsStr(v) THEN v.s ELSE Repr(v)

\* repr of a set of str
SetRepr(S) ==
  LET xs == SetToSeq(S)
  IN <<"set([">> \o Join(<<",", " ">>, [i \in 1..Len(xs) |-> <<"'">> \o xs[i] \o <<"'">>])
       \o <<"])">>

---------------------------------------------------------------------------
(* Entry and the path accessor *)

Entry(level, message, path) ==
  [level |-> level, message |-> message, path |-> path, number |-> 0]

\* a path argument: a str "a.b.c" or a list ['a', 'b', 'c']
PathStr(s) == [t |-> "str", s |-> s]
PathList(l) == [t |-> "list", l |-> l]

\* dict.get(s, None)
DictGet(m, s) == IF s \in DOMAIN m THEN m[s] ELSE None

RECURSIVE fn(_, _)
\* the loop of getter.fn over the remaining segments: data.get(s, None) is an
\* attribute of dict only, so it raises AttributeError on a str
fn(segments, data) ==
  IF segments = <<>> THEN Ok(data)
  ELSE IF ~IsMap(data) THEN Raised
  ELSE LET nd == DictGet(data.m, segments[1])
       IN IF IsNone(nd) THEN Ok(None) ELSE fn(Tail(segments), nd)

getter(path, data) ==
  fn(IF path.t = "str" THEN Split(path.s, ".") ELSE path.l, data)

get(path, data) == getter(path, data)

---------------------------------------------------------------------------
(* _RuleDispatcher's recording methods, on the list self._report *)

add_error(rep, message, path) == Append(rep, Entry("E", message, path))

add_warning(rep, message, path) == Append(rep, Entry("W", message, path))

add_information(rep, message, path) == Append(rep, Entry("I", message, path))

assert_error(rep, condition, message, path) ==
  IF ~condition THEN add_error(rep, message, path) ELSE rep

assert_warning(rep, condition, message, path) ==
  IF ~condition THEN add_warning(rep, message, path) ELSE rep

---------------------------------------------------------------------------
(* The regular expressions.  re.match anchors at the start; "$" matches at  *)
(* the end of the string and also just before a newline that ends it.       *)

AllDigits(s) == \A i \in 1..Len(s) : s[i] \in Digit

Sign == {"+", "-"}

Unsigned(s) == IF s # <<>> /\ s[1] \in Sign THEN Tail(s) ELSE s

\* \d+(\.\d*)? | \.\d+
IsMantissa(s) ==
  \E k \in 0..Len(s) :
    LET a == SubSeq(s, 1, k)
        b == SubSeq(s, k + 1, Len(s))
    IN /\ AllDigits(a)
       /\ \/ k >= 1 /\ b = <<>>
          \/ k >= 1 /\ b # <<>> /\ b[1] = "." /\ AllDigits(Tail(b))
          \/ k = 0 /\ Len(b) >= 2 /\ b[1] = "." /\ AllDigits(Tail(b))

\* ([eE][+-]?\d+)?
IsExponent(s) ==
  \/ s = <<>>
  \/ /\ Len(s) >= 2
     /\ s[1] \in {"e", "E"}
     /\ Unsigned(Tail(s)) # <<>>
     /\ AllDigits(Unsigned(Tail(s)))

NaturalBody(s) == s # <<>> /\ AllDigits(s)

IntegerBody(s) == NaturalBody(Unsigned(s))

FloatBody(s) ==
  LET u == Unsigned(s)
  IN \E k \in 0..Len(u) : IsMantissa(SubSeq(u, 1, k)) /\ IsExponent(SubSeq(u, k + 1, Len(u)))

\* "$": the body matches s, or s less the newline that ends it
Dollar(s) == IF s # <<>> /\ s[Len(s)] = "\n" THEN {s, SubSeq(s, 1, Len(s) - 1)} ELSE {s}

REGEX_NATURAL == [pattern |-> <<"^\\d+$">>]
REGEX_INTEGER == [pattern |-> <<"^[+-]?\\d+$">>]
REGEX_FLOAT == [pattern |-> <<"^[+-]?(\\d+(\\.\\d*)?|\\.\\d+)([eE][+-]?\\d+)?$">>]

\* regex.match(s) is not None
Match(regex, s) ==
  \E b \in Dollar(s) :
    IF regex = REGEX_NATURAL THEN NaturalBody(b)
    ELSE IF regex = REGEX_INTEGER THEN IntegerBody(b)
    ELSE FloatBody(b)

---------------------------------------------------------------------------
(* Checkers: each gives Ok([t, msg]) or raises *)

\* the working directory os.path.abspath resolves a relative name in
Cwd == <<"/", "cwd">>

\* os.path.abspath(o) for a name without "." and ".." components
AbsPath(o) == IF o # <<>> /\ o[1] = "/" THEN o ELSE Cwd \o <<"/">> \o o

is_str(o) ==
  Ok([t |-> ~IsNone(o) /\ IsStr(o), msg |-> <<"string expected">>])

\* os.path.exists raises TypeError for anything but a path
file_exists(o, fs) ==
  IF ~IsStr(o) THEN Raised
  ELSE Ok([t |-> o.s \in fs, msg |-> <<"file ">> \o AbsPath(o.s) \o <<" does exists">>])

\* regex.match raises TypeError for anything but a string
is_regex(regex, o) ==
  IF ~IsStr(o) THEN Raised
  ELSE Ok([t |-> Match(regex, o.s),
           msg |-> <<"field '">> \o Strip(o.s) \o <<"' was not matched by ">>
                     \o regex.pattern \o <<" ">>])

is_natural_number(o) == is_regex(REGEX_NATURAL, o)

is_float(o) == is_regex(REGEX_FLOAT, o)

is_int(o) == is_regex(REGEX_INTEGER, o)

\* "o in enum" hashes o: a dict is unhashable and raises TypeError
isOneOf(enum, o) ==
  IF ~IsStr(o) THEN Raised
  ELSE Ok([t |-> o.s \in enum, msg |-> o.s \o <<" has to be in ">> \o SetRepr(enum)])

\* literals of the schema: an int, or a float given by its digits
IntLit(n) == [py |-> "int", n |-> n, frac |-> <<>>]
FloatLit(n, frac) == [py |-> "float", n |-> n, frac |-> frac]

\* str(a) of a literal
PyStr(a) == IF a.py = "int" THEN IntStr(a.n) ELSE IntStr(a.n) \o <<".">> \o a.frac

is_equals(a, b) ==
  Ok([t |-> IsStr(b) /\ PyStr(a) = b.s,
      msg |-> PyStr(a) \o <<" is not equals ">> \o Fmt(b)])

---------------------------------------------------------------------------
(* HF3DataLint.FIELDS: a dict is D(<<key, node>> items), a Checker is one   *)
(* of the records below, anything else is a literal                         *)

D(items) == [t |-> "dict", items |-> items]
C_is_str == [t |-> "fn", fn |-> "is_str", arg |-> {}]
C_file_exists == [t |-> "fn", fn |-> "file_exists", arg |-> {}]
C_is_natural_number == [t |-> "fn", fn |-> "is_natural_number", arg |-> {}]
C_is_float == [t |-> "fn", fn |-> "is_float", arg |-> {}]
\* Checkers.oneOf(*args) == partial(Checkers.isOneOf, set(args))
oneOf(args) == [t |-> "fn", fn |-> "isOneOf", arg |-> args]
Lit(a) == [t |-> "lit", a |-> a]

FIELDS ==
  D(<< <<<<"Param">>, D(<<
    <<<<"OutputPathAndPrefix">>, C_is_str>>,
    <<<<"Mesh">>, D(<<
      <<<<"Filename">>, C_file_exists>>,
      <<<<"BCdataFilename">>, C_file_exists>>,
      <<<<"InitialRefLevel">>, C_is_natural_number>> >>)>>,
    <<<<"LinearAlgebra">>, D(<<
      <<<<"Platform">>, oneOf({<<"CPU">>, <<"GPU">>, <<"OPENCL">>})>>,
      <<<<"Implementation">>, oneOf({<<"Naive">>, <<"BLAS">>, <<"OPENMP">>, <<"MKL">>})>>,
      <<<<"MatrixFormat">>,
        oneOf({<<"NAIVE">>, <<"BLAS">>, <<"COO">>, <<"ELL">>, <<"CSR">>})>> >>)>>,
    <<<<"ElasticityModel">>, D(<<
      <<<<"density">>, C_is_float>>,
      <<<<"lambda">>, C_is_natural_number>>,
      <<<<"mu">>, C_is_natural_number>>,
      <<<<"gravity">>, C_is_float>> >>)>>,
    <<<<"QuadratureOrder">>, Lit(IntLit(2))>>,
    <<<<"FiniteElements">>, D(<<
      <<<<"DisplacementDegree">>, Lit(IntLit(1))>> >>)>>,
    <<<<"Instationary">>, D(<<
      <<<<"SolveInstationary">>, oneOf({<<"1">>, <<"2">>})>>,
      <<<<"DampingFactor">>, Lit(FloatLit(1, <<"0">>))>>,
      <<<<"RayleighAlpha">>, C_is_float>>,
      <<<<"RayleighBeta">>, C_is_float>>,
      <<<<"Method">>, oneOf({<<"ImplicitEuler">>, <<"CrankNicolson">>,
                             <<"ExplicitEuler">>, <<"Newmark">>})>>,
      <<<<"DeltaT">>, C_is_float>>,
      <<<<"MaxTimeStepIts">>, C_is_natural_number>> >>)>>,
    <<<<"Boundary">>, D(<<
      <<<<"DirichletMaterial1">>, C_is_natural_number>>,
      <<<<"DirichletMaterial2">>, C_is_natural_number>>,
      <<<<"DirichletMaterial3">>, C_is_natural_number>>,
      <<<<"NeumannMaterial1">>, C_is_natural_number>>,
      <<<<"NeumannMaterial1Pressure">>, C_is_float>>,
      <<<<"NeumannMaterial2">>, C_is_natural_number>>,
      <<<<"NeumannMaterial2Pressure">>, C_is_float>> >>)>>,
    <<<<"LinearSolver">>, D(<<
      <<<<"SolverName">>, oneOf({<<"CG">>, <<"GMRES">>})>>,
      <<<<"MaximumIterations">>, C_is_natural_number>>,
      <<<<"AbsoluteTolerance">>, C_is_float>>,
      <<<<"RelativeTolerance">>, C_is_float>>,
      <<<<"DivergenceLimit">>, C_is_float>>,
      <<<<"BasisSize">>, C_is_natural_number>>,
      <<<<"Preconditioning">>, oneOf({<<"0">>, <<"1">>})>>,
      <<<<"PreconditionerName">>,
        oneOf({<<"SGAUSS_SEIDEL">>, <<"NOPRECOND">>, <<"JACOBI">>, <<"GAUSS_SEIDEL">>,
               <<"SGAUSS_SEIDEL">>, <<"SOR">>, <<"SSOR">>, <<"ILU">>, <<"ILU", "2">>,
               <<"ILU_P">>, <<"ILUpp">>})>>,
      <<<<"Omega">>, C_is_float>>,
      <<<<"ILU_p">>, C_is_float>> >>)>>,
    <<<<"ILUPP">>, D(<<
      <<<<"PreprocessingType">>, Lit(IntLit(0))>>,
      <<<<"PreconditionerNumber">>, Lit(IntLit(11))>>,
      <<<<"MaxMultilevels">>, Lit(IntLit(20))>>,
      <<<<"MemFactor">>, Lit(FloatLit(0, <<"8">>))>>,
      <<<<"PivotThreshold">>, Lit(FloatLit(2, <<"7", "5">>))>>,
      <<<<"MinPivot">>, Lit(FloatLit(0, <<"0", "5">>))>> >>)>>
  >>)>> >>)

Reverse(s) == [i \in 1..Len(s) |-> s[Len(s) + 1 - i]]

\* d.iteritems(): the items in the order the dict iterates them in.  The
\* order of a dict is the interpreter's, not the program's: rv tells whether
\* it is the order FIELDS is written in or its reverse.
iteritems(d, rv) == IF rv THEN Reverse(d.items) ELSE d.items

RECURSIVE recur(_, _, _)
\* recur of _build_rules_from_fields, over the items of d still to visit:
\* the (path, checker) pairs appended to result, in order
recur(items, path, rv) ==
  IF items = <<>> THEN <<>>
  ELSE LET k == items[1][1]
           v == items[1][2]
           np == Append(path, k)
           here == IF v.t = "dict" THEN recur(iteritems(v, rv), np, rv)
                   ELSE IF v.t = "fn" THEN << <<np, v>> >>
                   ELSE << <<np, [t |-> "fn", fn |-> "is_equals", arg |-> v.a]>> >>
       IN here \o recur(Tail(items), path, rv)

_build_rules_from_fields(rv) == recur(iteritems(FIELDS, rv), <<>>, rv)

\* the call fn(value) of a (path, fn) pair
CallChecker(c, value, fs) ==
  CASE c.fn = "is_str" -> is_str(value)
    [] c.fn = "file_exists" -> file_exists(value, fs)
    [] c.fn = "is_natural_number" -> is_natural_number(value)
    [] c.fn = "is_float" -> is_float(value)
    [] c.fn = "isOneOf" -> isOneOf(c.arg, value)
    [] c.fn = "is_equals" -> is_equals(c.arg, value)

\* a rule's outcome: the report as the rule leaves it, and whether it
\* returned (ok) or raised
Done(rep) == [rep |-> rep, ok |-> TRUE]
Abort(rep) == [rep |-> rep, ok |-> FALSE]

MissingMsg == <<"Field does not exists">>

\* the last statement of an iteration of the loop of _rule_check_FIELDS:
\* c is what fn(value) gave
check_result(c, p) ==
  IF ~c.ok THEN Abort(<<>>) ELSE Done(assert_error(<<>>, c.v.t, c.v.msg, p))

\* the body of the loop after value = get(path, data)
check_value(value, p, c, fs) ==
  IF ~value.ok THEN Abort(<<>>)
  ELSE IF IsNone(value.v) THEN Done(add_error(<<>>, MissingMsg, p))
  ELSE check_result(CallChecker(c, value.v, fs), p)

\* one iteration of the loop: the entries it appends to the report, and
\* whether it ended (ok) or raised
check_pair(pair, data, fs) ==
  check_value(get(PathList(pair[1]), data), Join(<<".">>, pair[1]), pair[2], fs)

HasEntry(o) == o.rep # <<>>

\* the loop, from what each iteration does (an iteration only appends to
\* the report and reads nothing of it): the iterations up to the first that
\* raises are run, and that one appends nothing
run_pairs(rep, outs) ==
  LET bad == {i \in 1..Len(outs) : ~outs[i].ok}
      k == IF bad = {} THEN Len(outs) ELSE CHOOSE i \in bad : \A j \in bad : i <= j
      sel == SelectSeq(SubSeq(outs, 1, k), HasEntry)
  IN [rep |-> rep \o [i \in 1..Len(sel) |-> sel[i].rep[1]], ok |-> bad = {}]

pair_outcomes(pairs, data, fs) ==
  [i \in 1..Len(pairs) |-> check_pair(pairs[i], data, fs)]

_rule_check_FIELDS(rep, data, fs, rv) ==
  run_pairs(rep, pair_outcomes(_build_rules_from_fields(rv), data, fs))

---------------------------------------------------------------------------
(* float(x) and the comparison of _rule_lambda_mu.  A float is nan, an      *)
(* infinity, or the finite number m * 10^e; the strings of the model are    *)
(* short, so the decimal they spell is compared exactly (two different      *)
(* short decimals never round to the same double).                          *)

Nan == [k |-> "nan", m |-> 0, e |-> 0]
Inf(neg) == [k |-> "inf", m |-> IF neg THEN -1 ELSE 1, e |-> 0]
Fin(m, e) == [k |-> "fin", m |-> m, e |-> e]

RECURSIVE Pow10(_)
Pow10(n) == IF n = 0 THEN 1 ELSE 10 * Pow10(n - 1)

\* the value of a string the float grammar accepts (sign, mantissa, exponent)
FloatValue(s) ==
  LET neg == s[1] = "-"
      u == Unsigned(s)
      ei == IF \E i \in 1..Len(u) : u[i] \in {"e", "E"}
              THEN CHOOSE i \in 1..Len(u) : u[i] \in {"e", "E"}
              ELSE Len(u) + 1
      mant == SubSeq(u, 1, ei - 1)
      ex == SubSeq(u, ei + 1, Len(u))
      parts == Split(mant, ".")
      frac == IF Len(parts) = 2 THEN parts[2] ELSE <<>>
      m == NatOf(parts[1] \o frac)
      x == IF ex = <<>> THEN 0
           ELSE IF ex[1] = "-" THEN -NatOf(Unsigned(ex)) ELSE NatOf(Unsigned(ex))
  IN Fin(IF neg THEN -m ELSE m, x - Len(frac))

\* float(x): TypeError for None and for a dict, ValueError for a string that
\* spells no number; blanks around the number are ignored
float(x) ==
  IF ~IsStr(x) THEN Raised
  ELSE LET s == Strip(x.s)
           u == Unsigned(s)
       IN IF u = <<"nan">> THEN Ok(Nan)
          ELSE IF u = <<"inf">> THEN Ok(Inf(s[1] = "-"))
          ELSE IF FloatBody(s) THEN Ok(FloatValue(s))
          ELSE Raised

\* a < 0.5 * b: the comparison with the boundary on the wrong side
LtHalf(a, b) ==
  IF a.k = "nan" \/ b.k = "nan" THEN FALSE
  ELSE IF a.k = "inf" THEN a.m < 0 /\ ~(b.k = "inf" /\ b.m < 0)
  ELSE IF b.k = "inf" THEN b.m > 0
  ELSE IF a.e >= b.e THEN 2 * a.m * Pow10(a.e - b.e) < b.m
  ELSE 2 * a.m < b.m * Pow10(b.e - a.e)

\* a <= 0.5 * b
LeHalf(a, b) ==
  IF a.k = "nan" \/ b.k = "nan" THEN FALSE
  ELSE IF a.k = "inf" THEN a.m < 0 \/ (b.k = "inf" /\ b.m > 0)
  ELSE IF b.k = "inf" THEN b.m > 0
  ELSE IF a.e >= b.e THEN 2 * a.m * Pow10(a.e - b.e) <= b.m
  ELSE 2 * a.m <= b.m * Pow10(b.e - a.e)

a_mu == <<"Param", ".", "ElasticityModel", ".", "mu">>
a_lambda == <<"Param", ".", "ElasticityModel", ".", "lambda">>

\* float(get(path, data)), g being what get gave
float_of(g) == IF g.ok THEN float(g.v) ELSE Raised

\* the rule after mu and lam are read: either of the two raised, or the
\* comparison is made and asserted
lambda_mu_check(rep, mu, lam) ==
  IF ~mu.ok \/ ~lam.ok THEN Abort(rep)
  ELSE Done(assert_warning(rep, LeHalf(mu.v, lam.v),
                           a_mu \o <<" should half so small or smaller than ">> \o a_lambda,
                           a_mu))

_rule_lambda_mu(rep, data) ==
  lambda_mu_check(rep, float_of(get(PathStr(a_mu), data)),
                  float_of(get(PathStr(a_lambda), data)))

---------------------------------------------------------------------------
(* BCDataLint *)

RECURSIVE floats_loop(_, _, _)
\* the inner loop of _check_points_format: is_float on each component
floats_loop(rep, nums, path) ==
  IF nums = <<>> THEN rep
  ELSE LET c == is_float(Str(nums[1]))
       IN floats_loop(assert_error(rep, c.v.t, c.v.msg, path), Tail(nums), path)

RECURSIVE vectors_loop(_, _, _)
\* the outer loop of _check_points_format over the vectors still to check
vectors_loop(rep, vectors, path) ==
  IF vectors = <<>> THEN rep
  ELSE LET vector == vectors[1]
           nums == Split(vector, ",")
           r1 == IF Len(nums) # 3
                   THEN add_error(rep, <<"The vector ">> \o vector
                                         \o <<" does not have exact 3 components">>, path)
                   ELSE rep
       IN vectors_loop(floats_loop(r1, nums, path), Tail(vectors), path)

\* points.split raises AttributeError for a dict
_check_points_format(rep, path, points) ==
  IF ~IsStr(points) THEN Abort(rep)
  ELSE Done(vectors_loop(rep, Split(points.s, ";"), path))

\* _check_exists after g = get(path, data): the report, whether it returned,
\* and the value t it returns
exists_result(rep, g, path, prefixpath) ==
  IF ~g.ok THEN [rep |-> rep, ok |-> FALSE, t |-> FALSE]
  ELSE [rep |-> assert_error(rep, ~IsNone(g.v), MissingMsg,
                             (IF prefixpath # <<>> THEN prefixpath \o <<".">> ELSE <<>>)
                               \o path),
        ok |-> TRUE, t |-> ~IsNone(g.v)]

_check_exists(rep, data, path, prefixpath) ==
  exists_result(rep, get(PathStr(path), data), path, prefixpath)

\* check_points counting the separators instead of the segments
points_result_separators(rep, exp, f, path) ==
  IF ~IsStr(f) THEN Abort(rep)
  ELSE LET found == Count(f.s, ";")
       IN Done(assert_error(rep, exp = found,
                            <<"Amount of points mismatch (expected ">> \o IntStr(exp)
                              \o <<", found ">> \o IntStr(found) \o <<")">>,
                            path))

\* check_points after exp = int(count) and f = get(field, struct):
\* f.count raises AttributeError for a dict
points_result(rep, exp, f, path) ==
  IF ~IsStr(f) THEN Abort(rep)
  ELSE LET found == 1 + Count(f.s, ";")
       IN Done(assert_error(rep, exp = found,
                            <<"Amount of points mismatch (expected ">> \o IntStr(exp)
                              \o <<", found ">> \o IntStr(found) \o <<")">>,
                            path))

\* the inner function check_points of _check_entry; st is the struct
check_points(rep, st, rootpath, numberOf, field) ==
  points_result(rep, NatOf(Strip(get(PathStr(numberOf), st).v.s)),
                get(PathStr(field), st).v, rootpath \o <<".">> \o field)

\* _check_entry from the second _check_points_format on; f1 is what the
\* first gave
lists_points_format(f1, st, rootpath, points) ==
  IF ~f1.ok THEN f1
  ELSE _check_points_format(f1.rep, rootpath \o <<".">> \o points,
                            get(PathStr(points), st).v)

\* _check_entry without the _check_points_format of the displacement list
lists_displacement_unformatted(c2, st, rootpath, points, displacement) ==
  IF ~c2.ok THEN c2 ELSE lists_points_format(c2, st, rootpath, points)

\* _check_entry from the first _check_points_format on; c2 is what
\* check_points(displacement) gave
lists_displacement_format(c2, st, rootpath, points, displacement) ==
  IF ~c2.ok THEN c2
  ELSE lists_points_format(
         _check_points_format(c2.rep, rootpath \o <<".">> \o displacement,
                              get(PathStr(displacement), st).v),
         st, rootpath, points)

\* _check_entry from check_points(displacement) on; c1 is what
\* check_points(points) gave
lists_displacement(c1, st, rootpath, numberOf, points, displacement) ==
  IF ~c1.ok THEN c1
  ELSE lists_displacement_format(check_points(c1.rep, st, rootpath, numberOf, displacement),
                                 st, rootpath, points, displacement)

\* the part of _check_entry after the count was found to be a number
check_lists(rep, st, rootpath, numberOf, points, displacement) ==
  lists_displacement(check_points(rep, st, rootpath, numberOf, points),
                     st, rootpath, numberOf, points, displacement)

\* _check_entry going on to the format of the points after a count that is
\* no number, instead of returning
number_result_continue(rep, c, st, rootpath, numberOf, points, displacement) ==
  IF ~c.ok THEN Abort(rep)
  ELSE IF ~c.v.t
    THEN lists_points_format(
           Done(assert_error(rep, c.v.t, c.v.msg, rootpath \o <<".">> \o numberOf)),
           st, rootpath, points)
  ELSE check_lists(assert_error(rep, c.v.t, c.v.msg, rootpath \o <<".">> \o numberOf),
                   st, rootpath, numberOf, points, displacement)

\* _check_entry after t, msg = is_natural_number(count), which is c: the
\* Error is recorded, and the rule returns if the count is no number
number_result(rep, c, st, rootpath, numberOf, points, displacement) ==
  IF ~c.ok THEN Abort(rep)
  ELSE IF ~c.v.t
    THEN Done(assert_error(rep, c.v.t, c.v.msg, rootpath \o <<".">> \o numberOf))
  ELSE check_lists(assert_error(rep, c.v.t, c.v.msg, rootpath \o <<".">> \o numberOf),
                   st, rootpath, numberOf, points, displacement)

\* the part of _check_entry after all three fields were found
check_number(rep, st, rootpath, numberOf, points, displacement) ==
  number_result(rep, is_natural_number(get(PathStr(numberOf), st).v),
                st, rootpath, numberOf, points, displacement)

\* "a and b and c": an operand is evaluated only while the value is true.
\* e2 is what _check_exists(points) gave.
and_displacement(e2, st, rootpath, displacement) ==
  IF ~e2.ok \/ ~e2.t THEN e2 ELSE _check_exists(e2.rep, st, displacement, rootpath)

\* e1 is what _check_exists(numberOf) gave
and_points(e1, st, rootpath, points, displacement) ==
  IF ~e1.ok \/ ~e1.t THEN e1
  ELSE and_displacement(_check_exists(e1.rep, st, points, rootpath),
                        st, rootpath, displacement)

all_exists(rep, st, rootpath, numberOf, points, displacement) ==
  and_points(_check_exists(rep, st, numberOf, rootpath), st, rootpath, points, displacement)

\* _check_entry after all_exists, which is ae
entry_exists(ae, st, rootpath, numberOf, points, displacement) ==
  IF ~ae.ok THEN Abort(ae.rep)
  ELSE IF ~ae.t THEN Done(ae.rep)
  ELSE check_number(ae.rep, st, rootpath, numberOf, points, displacement)

\* _check_entry after struct = get(rootpath, data)
entry_struct(rep, struct, rootpath, numberOf, points, displacement) ==
  IF ~struct.ok THEN Abort(rep)
  ELSE IF IsNone(struct.v) THEN Done(rep)
  ELSE entry_exists(all_exists(rep, struct.v, rootpath, numberOf, points, displacement),
                    struct.v, rootpath, numberOf, points, displacement)

_check_entry(rep, data, rootpath, numberOf, points, displacement) ==
  entry_struct(rep, get(PathStr(rootpath), data), rootpath, numberOf, points, displacement)

BCRoot(name) == <<"Param", ".", "BCData", ".", name>>

_rule_FixedConstraintsBCs(rep, data) ==
  _check_entry(rep, data, BCRoot("FixedConstraintsBCs"),
               <<"NumberOfFixedDirichletPoints">>, <<"fDPoints">>, <<"fDisplacements">>)

_rule_DisplacementConstraintsBCs(rep, data) ==
  _check_entry(rep, data, BCRoot("DisplacementConstraintsBCs"),
               <<"NumberOfDisplacedDirichletPoints">>, <<"dDPoints">>, <<"dDisplacements">>)

_rule_ForceOrPressureBCs(rep, data) ==
  _check_entry(rep, data, BCRoot("ForceOrPressureBCs"),
               <<"NumberOfForceOrPressureBCPoints">>, <<"ForceOrPressureBCPoints">>,
               <<"ForcesOrPressure">>)

---------------------------------------------------------------------------
(* _RuleDispatcher.validate *)

Lints == {"HF3", "BC"}

R_check_FIELDS == <<"_rule_", "c", "heck_FIELDS">>
R_lambda_mu == <<"_rule_", "l", "ambda_mu">>
R_Fixed == <<"_rule_", "F", "i", "xedConstraintsBCs">>
R_Displacement == <<"_rule_", "D", "isplacementConstraintsBCs">>
R_Force == <<"_rule_", "F", "o", "rceOrPressureBCs">>

\* dir(self): the attribute names of an instance of the class
Dir(l) ==
  {<<"__init__">>, <<"_report">>, <<"add_error">>, <<"add_warning">>,
   <<"add_information">>, <<"assert_error">>, <<"assert_warning">>, <<"validate">>}
  \cup (IF l = "HF3"
          THEN {<<"FIELDS">>, <<"_build_rules_from_fields">>, R_check_FIELDS, R_lambda_mu}
          ELSE {<<"_check_points_format">>, <<"_check_exists">>, R_Fixed, R_Displacement,
                R_Force, <<"_check_entry">>})

\* x.startswith("_rule_")
rule_filter(x) == x[1] = "_rule_"

\* ord(c) of the characters the rule names differ in
Ord(c) ==
  CASE c = "D" -> 68 [] c = "F" -> 70 [] c = "c" -> 99 [] c = "i" -> 105
    [] c = "l" -> 108 [] c = "o" -> 111

RECURSIVE StrLess(_, _)
\* a < b for two str: the first character they differ in decides
StrLess(a, b) ==
  IF a = <<>> THEN b # <<>>
  ELSE IF b = <<>> THEN FALSE
  ELSE IF a[1] = b[1] THEN StrLess(Tail(a), Tail(b))
  ELSE Ord(a[1]) < Ord(b[1])

RECURSIVE sorted(_)
\* sorted(names): ascending
sorted(S) ==
  IF S = {} THEN <<>>
  ELSE LET x == CHOOSE y \in S : \A z \in S \ {y} : StrLess(y, z)
       IN <<x>> \o sorted(S \ {x})

\* rules = sorted(filter(rule_filter, dir(self)))
Rules(l) == sorted({x \in Dir(l) : rule_filter(x)})

\* getattr(self, r)(data)
CallRule(r, rep, data, fs, rv) ==
  CASE r = R_check_FIELDS -> _rule_check_FIELDS(rep, data, fs, rv)
    [] r = R_lambda_mu -> _rule_lambda_mu(rep, data)
    [] r = R_Fixed -> _rule_FixedConstraintsBCs(rep, data)
    [] r = R_Displacement -> _rule_DisplacementConstraintsBCs(rep, data)
    [] r = R_Force -> _rule_ForceOrPressureBCs(rep, data)

\* the state of validate after a rule ended with outcome o: the report, the
\* rules invoked so far, and the length of the report when each ended
after_rule(st, r, o) ==
  [rep |-> o.rep, ok |-> o.ok, invoked |-> Append(st.invoked, r),
   ends |-> Append(st.ends, Len(o.rep))]

RECURSIVE rules_loop(_, _, _, _, _)
RECURSIVE rules_next(_, _, _, _, _)

\* the for loop of validate over the rules still to call
rules_loop(st, rules, data, fs, rv) ==
  IF rules = <<>> THEN st
  ELSE rules_next(after_rule(st, rules[1], CallRule(rules[1], st.rep, data, fs, rv)),
                  rules, data, fs, rv)

\* a rule that raises ends the loop and validate
rules_next(st, rules, data, fs, rv) ==
  IF ~st.ok THEN st ELSE rules_loop(st, Tail(rules), data, fs, rv)

\* validate on a dispatcher: the report starts as the new empty list of
\* "self._report = []"; gives the report, whether validate returned, the
\* rules invoked and where in the report each ended
validate(l, data, fs, rv) ==
  rules_loop([rep |-> <<>>, ok |-> TRUE, invoked |-> <<>>, ends |-> <<>>],
             Rules(l), data, fs, rv)

\* the attribute left bound to the list it refers to: no new list is made
keep_report(h, r) == [heap |-> h, ref |-> r]

\* "self._report = []" on the heap of list objects: a new list is made and
\* the attribute bound to it.  h is the heap, r the list the attribute
\* refers to; gives the heap and the attribute after the assignment.
reset_report(h, r) == [heap |-> Append(h, <<>>), ref |-> Len(h) + 1]

---------------------------------------------------------------------------
(* Documents the operations are applied to *)

\* the largest number of segments of a generated point or value list
MaxSegs == 3

\* the largest number of validate() calls on one dispatcher
MaxCalls == 2

RECURSIVE Put(_, _, _)
\* the document v with the value at path (a list of keys) set to nv, or
\* with that key removed when nv is None
Put(v, path, nv) ==
  LET k == path[1]
      m == v.m
      old == IF k \in DOMAIN m /\ IsMap(m[k]) THEN m[k] ELSE EmptyMap
  IN IF Len(path) = 1
       THEN IF IsNone(nv) THEN Map([x \in DOMAIN m \ {k} |-> m[x]])
            ELSE Map([x \in DOMAIN m \cup {k} |-> IF x = k THEN nv ELSE m[x]])
       ELSE Map([x \in DOMAIN m \cup {k} |->
                   IF x = k THEN Put(old, Tail(path), nv) ELSE m[x]])

RECURSIVE ValidOf(_)
\* a document of the shape of a schema node, every leaf passing its Checker
\* when the file "m" exists
ValidOf(node) ==
  IF node.t = "dict"
    THEN LET its == node.items
         IN Map([k \in {its[i][1] : i \in 1..Len(its)} |->
                   ValidOf(its[CHOOSE i \in 1..Len(its) : its[i][1] = k][2])])
  ELSE IF node.t = "lit" THEN Str(PyStr(node.a))
  ELSE CASE node.fn = "is_str" -> Str(<<"out">>)
         [] node.fn = "file_exists" -> Str(<<"m">>)
         [] node.fn = "is_natural_number" -> Str(<<"1">>)
         [] node.fn = "is_float" -> Str(<<"1", ".", "5">>)
         [] node.fn = "isOneOf" -> Str(CHOOSE x \in node.arg : TRUE)

HF3Valid == ValidOf(FIELDS)

P_mu == <<<<"Param">>, <<"ElasticityModel">>, <<"mu">>>>
P_lambda == <<<<"Param">>, <<"ElasticityModel">>, <<"lambda">>>>

\* strings for mu and lambda
NumPool ==
  {<<"3">>, <<"4">>, <<"5">>, <<"8">>, <<"9">>, <<"4", ".", "5">>, <<".", "5">>,
   <<"-", "1">>, <<"1", "e", "1">>, <<"0">>, <<" ", "4", "\n">>, <<"nan">>, <<"x">>, <<>>}

MuLambdaDocs ==
  {Put(Put(HF3Valid, P_mu, Str(a)), P_lambda, Str(b)) : a \in NumPool, b \in NumPool}

\* every path of the schema: the leaves and the dicts above them
SchemaPaths ==
  LET leaves == _build_rules_from_fields(FALSE)
  IN UNION {{SubSeq(leaves[i][1], 1, n) : n \in 1..Len(leaves[i][1])} : i \in 1..Len(leaves)}

\* what a field is replaced by: nothing (the field is removed), a scalar,
\* an empty element, a mapping
Replacements == {None, Str(<<"x">>), Str(<<"7">>), EmptyMap, Map([k \in {<<"y">>} |-> Str(<<"1">>)])}

MutatedDocs == {Put(HF3Valid, p, v) : p \in SchemaPaths, v \in Replacements}

ExtraDocs ==
  {EmptyMap,
   Put(HF3Valid, <<<<"Param">>, <<"Extra">>>>, Str(<<"1">>)),
   Put(HF3Valid, <<<<"Other">>, <<"Mesh">>>>, Str(<<"1">>))}

HF3Docs == MuLambdaDocs \cup MutatedDocs \cup ExtraDocs

\* the files that exist
FilePool == {{}, {<<"m">>}}

---------------------------------------------------------------------------
(* BCData documents *)

BCRules == {R_Fixed, R_Displacement, R_Force}

\* the names each BCData rule passes to _check_entry
BCNames(r) ==
  CASE r = R_Fixed ->
         [root |-> <<"FixedConstraintsBCs">>, numberOf |-> <<"NumberOfFixedDirichletPoints">>,
          points |-> <<"fDPoints">>, displacement |-> <<"fDisplacements">>]
    [] r = R_Displacement ->
         [root |-> <<"DisplacementConstraintsBCs">>,
          numberOf |-> <<"NumberOfDisplacedDirichletPoints">>,
          points |-> <<"dDPoints">>, displacement |-> <<"dDisplacements">>]
    [] r = R_Force ->
         [root |-> <<"ForceOrPressureBCs">>, numberOf |-> <<"NumberOfForceOrPressureBCPoints">>,
          points |-> <<"ForceOrPressureBCPoints">>, displacement |-> <<"ForcesOrPressure">>]

\* the path of rule r's sub-structure, as a list of keys and as a str
RootKeys(r) == <<<<"Param">>, <<"BCData">>, BCNames(r).root>>
RootPath(r) == Join(<<".">>, RootKeys(r))

\* a document with an empty Param.BCData
BCBase == Put(EmptyMap, <<<<"Param">>, <<"BCData">>>>, EmptyMap)

\* the sub-structure of rule r with the given count, points and values
\* (None: the field is missing)
Struct(r, c, p, v) ==
  Put(Put(Put(EmptyMap, <<BCNames(r).numberOf>>, c), <<BCNames(r).points>>, p),
      <<BCNames(r).displacement>>, v)

Uniform(n, seg) == Join(<<";">>, [i \in 1..n |-> seg])

SegPool ==
  {<<"1", ",", "2", ",", "3">>, <<"0", ".", "1">>, <<"1", ",", "2">>,
   <<"1", ",", "x", ",", "3">>}

ListPool ==
  {Str(Uniform(n, seg)) : n \in 1..MaxSegs, seg \in SegPool}
  \cup {Str(<<"1", ",", "2", ",", "3", ";", "4", ",", "5", ",", "6">>),
        Str(<<"0", ".", "1", ";", "0", ".", "2">>),
        Str(<<"1", ",", "2", ";", "3", ",", "4", ",", "5">>),
        Str(<<>>), None, EmptyMap}

CountPool ==
  {Str(IntStr(n)) : n \in 0..(MaxSegs + 1)}
  \cup {Str(<<"0", "2">>), Str(<<"2", "\n">>), Str(<<"-", "1">>), Str(<<"x">>), None, EmptyMap}

\* one sub-structure, the two others absent
StructDocs ==
  {Put(BCBase, RootKeys(r), Struct(r, c, p, v)) :
     r \in BCRules, c \in CountPool, p \in ListPool, v \in ListPool}

Points1 == Str(<<"1", ",", "2", ",", "3">>)

\* a few sub-structures of rule r: absent, valid, a count that is no number
\* (with and without the lists), a scalar, an empty element, a count mismatch
SmallStructs(r) ==
  {None, Struct(r, Str(<<"1">>), Points1, Points1), Struct(r, Str(<<"x">>), Points1, Points1),
   Struct(r, Str(<<"x">>), None, Points1), Str(<<"s">>), EmptyMap,
   Struct(r, Str(<<"2">>), Points1, Points1)}

\* the three sub-structures together
ComboDocs ==
  {Put(Put(Put(BCBase, RootKeys(R_Displacement), a), RootKeys(R_Fixed), b),
       RootKeys(R_Force), c) :
     a \in SmallStructs(R_Displacement), b \in SmallStructs(R_Fixed),
     c \in SmallStructs(R_Force)}

BCDocs == StructDocs \cup ComboDocs

\* documents given to both linters
CrossDocs ==
  {EmptyMap, Map([k \in {<<"Param">>} |-> Str(<<"x">>)]), HF3Valid,
   Put(BCBase, <<<<"Param">>, <<"BCData">>>>, Str(<<"x">>)),
   Put(BCBase, RootKeys(R_Fixed), Struct(R_Fixed, Str(<<"1">>), Points1, Points1))}

\* what a call is given: the linter class, the document, the files that
\* exist and the dict order (both matter to HF3DataLint only)
Inputs ==
  {<<"HF3", d, f, rv>> : d \in HF3Docs \cup CrossDocs, f \in FilePool, rv \in BOOLEAN}
  \cup {<<"BC", d, {}, FALSE>> : d \in BCDocs \cup CrossDocs}

RuleNames(l) == {x \in Dir(l) : rule_filter(x)}

---------------------------------------------------------------------------
(* One call on a newly constructed dispatcher: the linter class, the         *)
(* document, the files that exist and the dict order are drawn at the        *)
(* start; the action is the call, and probe holds what it gave.              *)

NoProbe == [op |-> "none"]

InitCalls ==
  /\ \E x \in Inputs : lint = x[1] /\ doc = x[2] /\ files = x[3] /\ rev = x[4]
  /\ probe = NoProbe
  /\ heap = <<>>
  /\ report = 0
  /\ calls = <<>>

\* one rule method called on the new dispatcher, whose report is empty
DoRule(r) ==
  /\ probe = NoProbe
  /\ probe' = [op |-> "rule", rule |-> r, out |-> CallRule(r, <<>>, doc, files, rev)]
  /\ UNCHANGED <<lint, doc, files, rev, heap, report, calls>>

\* validate(doc) called on the new dispatcher
DoValidate ==
  /\ probe = NoProbe
  /\ probe' = [op |-> "validate", out |-> validate(lint, doc, files, rev)]
  /\ UNCHANGED <<lint, doc, files, rev, heap, report, calls>>

NextCalls ==
  \/ \E r \in RuleNames(lint) : DoRule(r)
  \/ DoValidate

SpecCalls == InitCalls /\ [][NextCalls]_vars

---------------------------------------------------------------------------
(* One call of get(path, data): the path and the data are drawn at the start *)

\* paths given to get(): str and list, resolving and not
GetPaths ==
  {PathStr(<<"Param">>), PathStr(a_mu), PathStr(<<"Param", ".", "Mesh", ".", "Filename">>),
   PathStr(RootPath(R_Fixed)), PathStr(<<"Param", ".", "Nope", ".", "x">>),
   PathStr(<<"Param", ".">>), PathStr(<<>>), PathStr(<<"Nope">>),
   PathStr(<<"NumberOfFixedDirichletPoints">>),
   PathList(<<>>), PathList(P_mu), PathList(<<<<"Param">>, <<"Mesh">>, <<"Nope">>>>),
   PathList(RootKeys(R_Fixed) \o <<<<"fDPoints">>>>)}

\* data given to get(): documents, and the sub-structures that
\* _check_exists and _check_entry pass
GetData ==
  CrossDocs
  \cup {Put(HF3Valid, p, v) : p \in {<<<<"Param">>, <<"Mesh">>>>, P_mu,
                                     <<<<"Param">>, <<"ElasticityModel">>>>},
                              v \in Replacements}
  \cup {x \in SmallStructs(R_Fixed) : IsMap(x)}

InitGet ==
  /\ doc \in GetData
  /\ lint = "HF3"
  /\ files = {}
  /\ rev = FALSE
  /\ probe = NoProbe
  /\ heap = <<>>
  /\ report = 0
  /\ calls = <<>>

\* get(p, doc)
DoGet(p) ==
  /\ probe = NoProbe
  /\ probe' = [op |-> "get", path |-> p, out |-> get(p, doc)]
  /\ UNCHANGED <<lint, doc, files, rev, heap, report, calls>>

NextGet == \E p \in GetPaths : DoGet(p)

SpecGet == InitGet /\ [][NextGet]_vars

---------------------------------------------------------------------------
(* A dispatcher in use: one instance, validate() called on it again and      *)
(* again.  heap holds the list objects, report the list self._report is     *)
(* bound to, calls what each call was given and what it returned.            *)

SessionDocs(l) ==
  IF l = "HF3"
    THEN {HF3Valid, EmptyMap,
          Put(Put(HF3Valid, P_mu, Str(<<"5">>)), P_lambda, Str(<<"8">>)),
          Put(Put(HF3Valid, P_mu, Str(<<"3">>)), P_lambda, Str(<<"8">>)),
          Put(HF3Valid, <<<<"Param">>, <<"Mesh">>>>, None),
          Put(HF3Valid, <<<<"Param">>, <<"QuadratureOrder">>>>, Str(<<"7">>))}
    ELSE {BCBase, Put(BCBase, <<<<"Param">>, <<"BCData">>>>, Str(<<"x">>))}
         \cup {Put(BCBase, RootKeys(R_Fixed), x) : x \in SmallStructs(R_Fixed)}

\* the dispatcher is constructed: __init__ binds self._report to a new list
Init ==
  /\ lint \in Lints
  /\ files \in (IF lint = "HF3" THEN FilePool ELSE {{}})
  /\ rev \in (IF lint = "HF3" THEN BOOLEAN ELSE {FALSE})
  /\ heap = << <<>> >>
  /\ report = 1
  /\ calls = <<>>
  /\ doc = EmptyMap
  /\ probe = NoProbe

\* validate(d) on the dispatcher: the attribute is bound to a new list and
\* the rules, which only ever append to self._report, leave their entries in
\* it.  ret is the list validate returned, 0 when it raised.
Validate(d) ==
  /\ Len(calls) < MaxCalls
  /\ LET rr == reset_report(heap, report)
         o == validate(lint, d, files, rev)
     IN /\ heap' = [rr.heap EXCEPT ![rr.ref] = @ \o o.rep]
        /\ report' = rr.ref
        /\ calls' = Append(calls, [doc |-> d, ok |-> o.ok,
                                   ret |-> IF o.ok THEN rr.ref ELSE 0])
  /\ doc' = d
  /\ UNCHANGED <<lint, files, rev, probe>>

Next == \E d \in SessionDocs(lint) : Validate(d)

Spec == Init /\ [][Next]_vars

---------------------------------------------------------------------------
(* The claims.  What a claim says of a document is read off the document    *)
(* itself, by the definitions below, and compared with what the call gave.  *)

RECURSIVE Resolve(_, _)
\* the value a list of keys leads to in v: None when a key is missing or a
\* value on the way is no mapping
Resolve(keys, v) ==
  IF keys = <<>> THEN v
  ELSE IF IsMap(v) /\ keys[1] \in DOMAIN v.m THEN Resolve(Tail(keys), v.m[keys[1]])
  ELSE None

\* the segments of a path argument
Segments(p) == IF p.t = "str" THEN Split(p.s, ".") ELSE p.l

IsError(e) == e.level = "E"
Errors(rep) == SelectSeq(rep, IsError)

\* the entries of rep at a path
At(rep, path) == SelectSeq(rep, LAMBDA e : e.path = path)

\* the action was the call of rule r
RuleProbe(r) == probe.op = "rule" /\ probe.rule = r

\* the rules in the order the claims name them
NamedOrder(l) ==
  IF l = "HF3" THEN <<R_check_FIELDS, R_lambda_mu>> ELSE <<R_Displacement, R_Fixed, R_Force>>

\* the entries the i-th invoked rule left in the report of outcome o
RuleEntries(o, i) == SubSeq(o.rep, IF i = 1 THEN 1 ELSE o.ends[i - 1] + 1, o.ends[i])

\* the sub-structure of BCData rule r in the document, its fields and their
\* paths; f is "numberOf", "points" or "displacement"
Sub(r) == Resolve(RootKeys(r), doc)
Field(r, f) == Resolve(<<BCNames(r)[f]>>, Sub(r))
FieldPath(r, f) == RootPath(r) \o <<".">> \o BCNames(r)[f]
FieldNames == <<"numberOf", "points", "displacement">>
AllPresent(r) == IsMap(Sub(r)) /\ \A i \in 1..3 : ~IsNone(Field(r, FieldNames[i]))

\* the count of r's sub-structure is a string the natural-number pattern
\* matches, and the number it spells
IsNat(v) == IsStr(v) /\ Match(REGEX_NATURAL, v.s)
CountOf(r) == NatOf(Strip(Field(r, "numberOf").s))

\* v is a string of n segments, each of components the float pattern
\* matches, and of exactly 3 of them if exact
FloatList(v, n, exact) ==
  /\ IsStr(v)
  /\ LET segs == Split(v.s, ";")
     IN /\ Len(segs) = n
        /\ \A i \in 1..Len(segs) :
             LET comps == Split(segs[i], ",")
             IN /\ \A j \in 1..Len(comps) : Match(REGEX_FLOAT, comps[j])
                /\ exact => Len(comps) = 3

\* C5's sub-structure: a natural count n, n points of 3 floats, n values of
\* floats
CountedLists(r) ==
  /\ IsMap(Sub(r))
  /\ IsNat(Field(r, "numberOf"))
  /\ FloatList(Field(r, "points"), CountOf(r), TRUE)
  /\ FloatList(Field(r, "displacement"), CountOf(r), FALSE)

\* the Errors for the segments of s that do not have 3 components
ArityErrors(s, path) ==
  LET odd == SelectSeq(Split(s, ";"), LAMBDA seg : Len(Split(seg, ",")) # 3)
  IN [i \in 1..Len(odd) |->
        Entry("E", <<"The vector ">> \o odd[i] \o <<" does not have exact 3 components">>,
              path)]

---------------------------------------------------------------------------
\* C1: validate() of either linter returns a Report for every document, and
\* so does every rule when it is the one called: none raises because of
\* what the document holds.
ValidateAlwaysReturns == probe.op \in {"validate", "rule"} => probe.out.ok

\* C2: on one dispatcher, every Report a validate() call returned holds the
\* entries a new dispatcher records for that call's document, in the same
\* order, after every later call too; two calls never return the same list.
ReportsAreFresh ==
  /\ \A i \in 1..Len(calls) :
       calls[i].ok => heap[calls[i].ret] = validate(lint, calls[i].doc, files, rev).rep
  /\ \A i, j \in 1..Len(calls) :
       (i # j /\ calls[i].ok /\ calls[j].ok) => calls[i].ret # calls[j].ret

\* the same document validated twice on one dispatcher, both Reports with
\* entries and equal
SameDocumentTwice ==
  /\ Len(calls) >= 2
  /\ calls[1].ok /\ calls[2].ok
  /\ calls[1].doc = calls[2].doc
  /\ heap[calls[1].ret] # <<>>
  /\ heap[calls[1].ret] = heap[calls[2].ret]

\* C3: _rule_check_FIELDS returns, and for each leaf of FIELDS its entries
\* at the leaf's dotted path are: the one missing-field Error when the path
\* does not resolve, one Error when it resolves and the Checker fails, none
\* when the Checker passes; it records at no other path.
SchemaRulePerLeaf ==
  RuleProbe(R_check_FIELDS) =>
    LET leaves == _build_rules_from_fields(rev)
    IN /\ probe.out.ok
       /\ \A i \in 1..Len(leaves) :
            LET p == Join(<<".">>, leaves[i][1])
                v == Resolve(leaves[i][1], doc)
                at == At(probe.out.rep, p)
            IN IF IsNone(v) THEN at = <<Entry("E", MissingMsg, p)>>
               ELSE /\ Len(at) = (IF CallChecker(leaves[i][2], v, files).v.t THEN 0 ELSE 1)
                    /\ \A j \in 1..Len(at) : IsError(at[j])
       /\ \A j \in 1..Len(probe.out.rep) :
            \E i \in 1..Len(leaves) : probe.out.rep[j].path = Join(<<".">>, leaves[i][1])

\* C4: get(path, document) returns, without raising, the value the segments
\* lead to, and None as soon as the current value is no mapping or lacks the
\* next segment.
GetNeverRaises ==
  probe.op = "get" => probe.out = Ok(Resolve(Segments(probe.path), doc))

EveryRuleOnceInOrder ==
  probe.op = "validate" =>
    /\ probe.out.invoked = NamedOrder(lint)
    /\ \A i \in 1..Len(NamedOrder(lint)) :
         RuleEntries(probe.out, i) = CallRule(NamedOrder(lint)[i], <<>>, doc, files, rev).rep
    /\ probe.out.ends[Len(NamedOrder(lint))] = Len(probe.out.rep)

\* mu and lambda of the document, and what float() makes of them
MuOf == float(Resolve(P_mu, doc))
LambdaOf == float(Resolve(P_lambda, doc))

\* both are present strings that spell a finite number
BothNumeric ==
  /\ MuOf.ok /\ MuOf.v.k = "fin"
  /\ LambdaOf.ok /\ LambdaOf.v.k = "fin"

\* the finite number x in units of 10^e, for e <= x.e
Units(x, e) == x.m * Pow10(x.e - e)

\* mu > 0.5 * lambda, that is 2 * mu > lambda, in a unit both are whole in
MuExceedsHalfLambda ==
  LET e == IF MuOf.v.e <= LambdaOf.v.e THEN MuOf.v.e ELSE LambdaOf.v.e
  IN 2 * Units(MuOf.v, e) > Units(LambdaOf.v, e)

\* C7: with mu and lambda both numeric, _rule_lambda_mu returns, and its
\* Report is one Warning at Param.ElasticityModel.mu when mu > 0.5 * lambda
\* and empty otherwise (at the boundary mu = 0.5 * lambda too); it holds no
\* Error.
WarningIffMuExceedsHalfLambda ==
  (RuleProbe(R_lambda_mu) /\ BothNumeric) =>
    /\ probe.out.ok
    /\ Errors(probe.out.rep) = <<>>
    /\ IF MuExceedsHalfLambda
         THEN /\ Len(probe.out.rep) = 1
              /\ probe.out.rep[1].level = "W"
              /\ probe.out.rep[1].path = a_mu
         ELSE probe.out.rep = <<>>

\* the boundary: mu = "4", lambda = "8", and the rule recorded nothing
MuIsHalfLambda ==
  /\ RuleProbe(R_lambda_mu)
  /\ Resolve(P_mu, doc) = Str(<<"4">>)
  /\ Resolve(P_lambda, doc) = Str(<<"8">>)
  /\ probe.out = Done(<<>>)

\* the fields of r's sub-structure that are missing
Missing(r) == {f \in {"numberOf", "points", "displacement"} : IsNone(Field(r, f))}

\* the document has Param.BCData, and r's sub-structure is not in it
Absent(r) ==
  /\ IsMap(Resolve(<<<<"Param">>, <<"BCData">>>>, doc))
  /\ IsNone(Sub(r))

\* C8: for a sub-structure that is present and lacks k of its three fields
\* the cross-field rule records k Errors, one missing-field Error at the
\* path of each missing field, and nothing else; for an absent
\* sub-structure it records nothing.
OneErrorPerMissingField ==
  \A r \in BCRules :
    RuleProbe(r) =>
      /\ Absent(r) => probe.out = Done(<<>>)
      /\ (IsMap(Sub(r)) /\ Missing(r) # {}) =>
           /\ probe.out.ok
           /\ Len(probe.out.rep) = Cardinality(Missing(r))
           /\ \A f \in Missing(r) :
                At(probe.out.rep, FieldPath(r, f)) = <<Entry("E", MissingMsg, FieldPath(r, f))>>

\* the count-mismatch Errors of a report, and the one for expected n, found k
IsMismatch(e) == e.level = "E" /\ e.message[1] = "Amount of points mismatch (expected "
MismatchMsg(n, k) ==
  <<"Amount of points mismatch (expected ">> \o IntStr(n) \o <<", found ">> \o IntStr(k)
    \o <<")">>

\* r's sub-structure has its three fields, a natural count, and two lists
\* that are strings
CountedStrings(r) ==
  /\ AllPresent(r)
  /\ IsNat(Field(r, "numberOf"))
  /\ IsStr(Field(r, "points")) /\ IsStr(Field(r, "displacement"))

\* C9: for a sub-structure with its three fields and a natural count n the
\* rule returns, and for each of the two lists its count-mismatch Errors are
\* one Error at the list's own path, citing n and the number of segments
\* found, when that number differs from n, and none when it equals n; there
\* is no count-mismatch Error at another path.
CountMismatchPerList ==
  \A r \in BCRules :
    (RuleProbe(r) /\ CountedStrings(r)) =>
      /\ probe.out.ok
      /\ \A f \in {"points", "displacement"} :
           LET k == Len(Split(Field(r, f).s, ";"))
           IN SelectSeq(At(probe.out.rep, FieldPath(r, f)), IsMismatch)
                = IF k # CountOf(r)
                    THEN <<Entry("E", MismatchMsg(CountOf(r), k), FieldPath(r, f))>>
                    ELSE <<>>
      /\ \A j \in 1..Len(probe.out.rep) :
           IsMismatch(probe.out.rep[j]) =>
             probe.out.rep[j].path \in {FieldPath(r, "points"), FieldPath(r, "displacement")}

\* count "3" and a points list of 2 segments: expected 3, found 2
ExpectedThreeFoundTwo ==
  /\ RuleProbe(R_Fixed)
  /\ CountedStrings(R_Fixed)
  /\ CountOf(R_Fixed) = 3
  /\ Len(Split(Field(R_Fixed, "points").s, ";")) = 2
  /\ \E j \in 1..Len(probe.out.rep) :
       probe.out.rep[j] = Entry("E", MismatchMsg(3, 2), FieldPath(R_Fixed, "points"))

\* the count of r's sub-structure is a string the natural-number pattern
\* does not match
BadCount(r) ==
  /\ IsMap(Sub(r))
  /\ IsStr(Field(r, "numberOf"))
  /\ ~Match(REGEX_NATURAL, Field(r, "numberOf").s)

\* the document with r's sub-structure replaced by a valid one
Repaired(r) == Put(doc, RootKeys(r), Struct(r, Str(<<"1">>), Points1, Points1))

\* the report of outcome o of validate without the entries of rule r
Without(o, r) ==
  IF \E i \in 1..Len(o.invoked) : o.invoked[i] = r
    THEN LET i == CHOOSE j \in 1..Len(o.invoked) : o.invoked[j] = r
         IN SubSeq(o.rep, 1, IF i = 1 THEN 0 ELSE o.ends[i - 1])
              \o SubSeq(o.rep, o.ends[i] + 1, Len(o.rep))
    ELSE o.rep

\* what C10 says of rule r and its sub-structure: the rule, called, returns
\* with exactly one entry, an Error at the count's path; and validate() ends
\* as it does on the document with that sub-structure valid, having invoked
\* the same rules, with the same entries from the other rules
AbortLeavesOthers(r) ==
  /\ RuleProbe(r) =>
       /\ probe.out.ok
       /\ Len(probe.out.rep) = 1
       /\ probe.out.rep[1].level = "E"
       /\ probe.out.rep[1].path = FieldPath(r, "numberOf")
  /\ (probe.op = "validate" /\ lint = "BC") =>
       /\ probe.out.ok = validate(lint, Repaired(r), files, rev).ok
       /\ probe.out.invoked = validate(lint, Repaired(r), files, rev).invoked
       /\ Without(probe.out, r) = validate(lint, Repaired(r), files, rev).rep

\* C10 as stated: whenever the count string of a sub-structure does not
\* match the natural-number pattern, its rule records exactly one Error, at
\* the count's path, and the other rules record what they record with that
\* sub-structure valid.
AbortIsLocal == \A r \in BCRules : BadCount(r) => AbortLeavesOthers(r)

\* C10, amended: the same for a sub-structure that has all three of its
\* fields (with a list missing, the one Error is the missing-field Error at
\* that list's path).
AbortIsLocalWhenFieldsPresent ==
  \A r \in BCRules : (BadCount(r) /\ AllPresent(r)) => AbortLeavesOthers(r)

\* validate() on a document whose DisplacementConstraintsBCs has the count
\* "x" and both lists, and whose FixedConstraintsBCs has a count mismatch:
\* the Report holds the Error of the first and then those of the second
BadCountThenMismatch ==
  /\ probe.op = "validate" /\ lint = "BC"
  /\ BadCount(R_Displacement) /\ AllPresent(R_Displacement)
  /\ CountedStrings(R_Fixed)
  /\ probe.out.ok
  /\ Len(probe.out.rep) >= 3
  /\ probe.out.rep[1].path = FieldPath(R_Displacement, "numberOf")
  /\ IsMismatch(probe.out.rep[2])

====
